---- MODULE Spec2Model ----
(***************************************************************************)
(* Model of zoomcamp/pipeline/assets/ingestion/trips.py: the month planner *)
(* _generate_month_starts, the schema normalizer _normalize_columns and    *)
(* the fetch/filter/concatenate loop of materialize.                       *)
(*                                                                         *)
(* Timestamps are counted in ticks since midnight of the first day of the  *)
(* epoch month; a day has TicksPerDay ticks.  A DataFrame is a record      *)
(* [columns, rows]: columns is the sequence of column labels (labels may   *)
(* repeat, as in pandas) and every row holds one cell per column position. *)
(***************************************************************************)
EXTENDS Integers, Sequences, FiniteSets, TLC

\* ------------------------------------------------------------------ bounds
\* Number of calendar months, counted from the epoch month, in which the
\* window's start and end dates are drawn.
NumMonths == 2

\* Largest number of (taxi_type, month) pairs of a run that is explored.
MaxPairs == 4

\* Resolution of the time of day.
TicksPerDay == 2

\* First month of the modelled calendar, <<year, month>>.
Epoch == <<2022, 12>>

\* ---------------------------------------------------------------- calendar
IsLeap(y) == (y % 4 = 0 /\ y % 100 # 0) \/ y % 400 = 0

DaysInMonth(y, m) ==
    IF m = 2 THEN (IF IsLeap(y) THEN 29 ELSE 28)
    ELSE IF m \in {4, 6, 9, 11} THEN 30 ELSE 31

NextYM(ym) == IF ym[2] = 12 THEN <<ym[1] + 1, 1>> ELSE <<ym[1], ym[2] + 1>>

\* Days from the first day of the epoch month to the first day of month ym.
RECURSIVE DaysBefore(_, _)
DaysBefore(from, ym) ==
    IF from = ym THEN 0
    ELSE DaysInMonth(from[1], from[2]) + DaysBefore(NextYM(from), ym)

\* The <<year, month, day>> of day number n, counted from the first day of
\* month ym.
RECURSIVE YMDFrom(_, _)
YMDFrom(ym, n) ==
    IF n < DaysInMonth(ym[1], ym[2]) THEN <<ym[1], ym[2], n + 1>>
    ELSE YMDFrom(NextYM(ym), n - DaysInMonth(ym[1], ym[2]))

\* pd.to_datetime on an ISO string "YYYY-MM-DD[Thh]": the string is held as
\* its fields [y, m, d, tick].
ToDatetime(s) == (DaysBefore(Epoch, <<s.y, s.m>>) + (s.d - 1)) * TicksPerDay + s.tick

\* Timestamp.normalize(): the time of day is set to midnight.
Normalize(ts) == ts - (ts % TicksPerDay)

\* Timestamp.year / .month / .day
YMD(ts) == YMDFrom(Epoch, ts \div TicksPerDay)

Year(ts) == YMD(ts)[1]

Month(ts) == YMD(ts)[2]

IsMonthStart(ts) == YMD(ts)[3] = 1 /\ ts % TicksPerDay = 0

\* MonthBegin offset: the first month start strictly after ts (ts at midnight).
NextMonthStart(ts) ==
    LET d == YMD(ts)
    IN  ts + (DaysInMonth(d[1], d[2]) - d[3] + 1) * TicksPerDay

\* MonthBegin.rollforward
RollForward(ts) == IF IsMonthStart(ts) THEN ts ELSE NextMonthStart(ts)

RECURSIVE RangeFrom(_, _)
RangeFrom(cur, end) ==
    IF cur > end THEN <<>> ELSE <<cur>> \o RangeFrom(NextMonthStart(cur), end)

\* Variant: the end of the range is left out.
RECURSIVE RangeBefore(_, _)
RangeBefore(cur, end) ==
    IF cur >= end THEN <<>> ELSE <<cur>> \o RangeBefore(NextMonthStart(cur), end)

DateRangeOpenEnd(start, end) == RangeBefore(RollForward(start), end)

\* pd.date_range(start=, end=, freq="MS"): every month start in [start, end].
DateRangeMS(start, end) == RangeFrom(RollForward(start), end)

\* Variant: the dates are not normalized to midnight.
GenerateWithoutNormalize(start, end) == DateRangeMS(ToDatetime(start), ToDatetime(end))

_generate_month_starts(start, end) ==
    LET first == Normalize(ToDatetime(start))
        last == Normalize(ToDatetime(end))
    IN  DateRangeMS(first, last)

\* -------------------------------------------------------------- DataFrames
\* A cell: a number (timestamps, ids, amounts), a string, or null (pd.NA/NaT).
NA == [null |-> TRUE, n |-> 0, s |-> ""]

Num(x) == [null |-> FALSE, n |-> x, s |-> ""]

Str(x) == [null |-> FALSE, n |-> 0, s |-> x]

\* The set of elements of a sequence.
Range(q) == {q[i] : i \in DOMAIN q}

\* df[c] for a label held by exactly one column: that column's position.
ColumnOf(df, c) == CHOOSE i \in DOMAIN df.columns : df.columns[i] = c

\* df.rename(columns=rename_map): labels that are keys of the map are
\* replaced, other labels and keys naming no column are left alone.
Rename(df, mapping) ==
    [df EXCEPT !.columns =
        [i \in DOMAIN df.columns |->
            IF df.columns[i] \in DOMAIN mapping
            THEN mapping[df.columns[i]] ELSE df.columns[i]]]

\* df[col] = value for a label that is not yet a column: a new last column.
AddColumn(df, col, value) ==
    [columns |-> Append(df.columns, col),
     rows |-> [k \in DOMAIN df.rows |->
                 [df.rows[k] EXCEPT !.cells = Append(@, value)]]]

\* df[col] = value for an existing label: every column with that label is set.
SetColumn(df, col, value) ==
    IF col \notin Range(df.columns) THEN AddColumn(df, col, value)
    ELSE [df EXCEPT !.rows =
            [k \in DOMAIN df.rows |->
                [df.rows[k] EXCEPT !.cells =
                    [i \in DOMAIN df.columns |->
                        IF df.columns[i] = col THEN value ELSE @[i]]]]]

\* The positions of the columns labelled c, ascending.
RECURSIVE PositionsFrom(_, _, _)
PositionsFrom(columns, c, i) ==
    IF i > Len(columns) THEN <<>>
    ELSE (IF columns[i] = c THEN <<i>> ELSE <<>>) \o PositionsFrom(columns, c, i + 1)

RECURSIVE SelectPositions(_, _)
SelectPositions(columns, labels) ==
    IF labels = <<>> THEN <<>>
    ELSE PositionsFrom(columns, Head(labels), 1) \o SelectPositions(columns, Tail(labels))

\* df[labels]: for each label in turn, every column carrying it.
Select(df, labels) ==
    LET pos == SelectPositions(df.columns, labels)
    IN  [columns |-> [p \in DOMAIN pos |-> df.columns[pos[p]]],
         rows |-> [k \in DOMAIN df.rows |->
                     [df.rows[k] EXCEPT !.cells = [p \in DOMAIN pos |-> @[pos[p]]]]]]

\* df.loc[mask]: the rows whose mask entry is true, in their order.
RECURSIVE KeepRows(_, _, _)
KeepRows(rows, mask, k) ==
    IF k > Len(rows) THEN <<>>
    ELSE (IF mask[k] THEN <<rows[k]>> ELSE <<>>) \o KeepRows(rows, mask, k + 1)

Loc(df, mask) == [df EXCEPT !.rows = KeepRows(df.rows, mask, 1)]

\* ------------------------------------------------------ _normalize_columns
required_columns ==
    <<"pickup_datetime", "dropoff_datetime", "pickup_location_id",
      "dropoff_location_id", "fare_amount", "payment_type", "taxi_type">>

\* pd.DataFrame(columns=[...]): no rows.
EmptyFrame == [columns |-> required_columns, rows |-> <<>>]

\* The if/elif chain on the pickup column; "" stands for the else branch.
pickup_col(df) ==
    IF "pickup_datetime" \in Range(df.columns) THEN "pickup_datetime"
    ELSE IF "tpep_pickup_datetime" \in Range(df.columns) THEN "tpep_pickup_datetime"
    ELSE IF "lpep_pickup_datetime" \in Range(df.columns) THEN "lpep_pickup_datetime"
    ELSE ""

dropoff_col(df) ==
    IF "pickup_datetime" \in Range(df.columns) THEN "dropoff_datetime"
    ELSE IF "tpep_pickup_datetime" \in Range(df.columns) THEN "tpep_dropoff_datetime"
    ELSE IF "lpep_pickup_datetime" \in Range(df.columns) THEN "lpep_dropoff_datetime"
    ELSE ""

rename_map(df) ==
    LET keys == {pickup_col(df), dropoff_col(df)}
                  \cup ({"PULocationID", "DOLocationID"} \cap Range(df.columns))
    IN  [c \in keys |->
            IF c = pickup_col(df) THEN "pickup_datetime"
            ELSE IF c = dropoff_col(df) THEN "dropoff_datetime"
            ELSE IF c = "PULocationID" THEN "pickup_location_id"
            ELSE "dropoff_location_id"]

\* for col in required_columns: if col not in df.columns: df[col] = pd.NA
RECURSIVE EnsureColumns(_, _)
EnsureColumns(df, labels) ==
    IF labels = <<>> THEN df
    ELSE EnsureColumns(
            IF Head(labels) \in Range(df.columns) THEN df
            ELSE AddColumn(df, Head(labels), NA),
            Tail(labels))

\* Whether _normalize_columns raises ValueError on df.
NormalizeRaises(df) == pickup_col(df) = ""

\* Variant: taxi_type is only filled in where the source has no such column.
NormalizeKeepingSourceLabel(df, taxi_type) ==
    LET renamed == Rename(df, rename_map(df))
        labelled == IF "taxi_type" \in Range(renamed.columns) THEN renamed
                    ELSE AddColumn(renamed, "taxi_type", Str(taxi_type))
    IN  Select(EnsureColumns(labelled, required_columns), required_columns)

\* The frame _normalize_columns returns when it does not raise.
_normalize_columns(df, taxi_type) ==
    LET renamed == Rename(df, rename_map(df))
        ensured == EnsureColumns(renamed, required_columns)
        kept == Select(ensured, required_columns)
    IN  SetColumn(kept, "taxi_type", Str(taxi_type))

\* ------------------------------------------------------------ materialize
\* BASE_URL.format(taxi_type=, year=, month=f"{month:02d}"): the three fields
\* substituted into the template, the month as its two decimal digits.
BaseUrl(taxi_type, year, month) ==
    [taxi_type |-> taxi_type, year |-> year, month |-> <<month \div 10, month % 10>>]

\* Variant: the end of the window is included.
WindowMaskClosed(df, lo, hi) ==
    [k \in DOMAIN df.rows |->
        LET c == df.rows[k].cells[ColumnOf(df, "pickup_datetime")]
        IN  ~c.null /\ c.n >= lo /\ c.n <= hi]

\* (df["pickup_datetime"] >= start_ts) & (df["pickup_datetime"] < end_ts);
\* a comparison with a null timestamp is false.
WindowMask(df, lo, hi) ==
    [k \in DOMAIN df.rows |->
        LET c == df.rows[k].cells[ColumnOf(df, "pickup_datetime")]
        IN  ~c.null /\ c.n >= lo /\ c.n < hi]

RECURSIVE JoinRows(_)
JoinRows(dfs) ==
    IF dfs = <<>> THEN <<>> ELSE Head(dfs).rows \o JoinRows(Tail(dfs))

\* pd.concat raises InvalidIndexError when the frames' column labels differ
\* and some frame has a repeated label (it cannot be reindexed).
ConcatRaises(dfs) == \E a, b \in DOMAIN dfs : dfs[a].columns # dfs[b].columns

\* Variant: later frames are put in front.
RECURSIVE JoinRowsBackwards(_)
JoinRowsBackwards(dfs) ==
    IF dfs = <<>> THEN <<>> ELSE JoinRowsBackwards(Tail(dfs)) \o Head(dfs).rows

ConcatBackwards(dfs) == [columns |-> dfs[1].columns, rows |-> JoinRowsBackwards(dfs)]

\* pd.concat(dataframes, ignore_index=True) on frames with equal columns.
Concat(dfs) == [columns |-> dfs[1].columns, rows |-> JoinRows(dfs)]

\* Variant: the try block also encloses the call of _normalize_columns.
SwallowedAll(fetch_failed, normalize_raised) == fetch_failed \/ normalize_raised

\* Variant: no try/except.
SwallowedNone(fetch_failed, normalize_raised) == FALSE

\* The try/except around pd.read_parquet: which failures of one iteration
\* the except clause catches.
Swallowed(fetch_failed, normalize_raised) == fetch_failed

\* The position after (t, m) in "for taxi_type ...: for month_start ...".
NextPair(t, m, months) == IF m < Len(months) THEN <<t, m + 1>> ELSE <<t + 1, 1>>

\* json.loads(os.environ["BRUIN_VARS"]).get("taxi_types", ["yellow"])
TaxiTypesOf(vars) ==
    IF "taxi_types" \in DOMAIN vars THEN vars.taxi_types ELSE <<"yellow">>

\* ------------------------------------------------------- the remote source
\* The layouts a remote file may have: <<column label, content>> pairs.
Layouts ==
    [yellow |-> << <<"VendorID", "id">>, <<"tpep_pickup_datetime", "pickup">>,
                   <<"tpep_dropoff_datetime", "dropoff">>, <<"PULocationID", "id">>,
                   <<"DOLocationID", "id">>, <<"payment_type", "id">>,
                   <<"fare_amount", "amount">>, <<"taxi_type", "label">> >>,
     green  |-> << <<"lpep_pickup_datetime", "pickup">>,
                   <<"lpep_dropoff_datetime", "dropoff">>, <<"fare_amount", "amount">> >>,
     fhv    |-> << <<"tpep_pickup_datetime", "other">>, <<"pickup_datetime", "pickup">>,
                   <<"dropoff_datetime", "dropoff">>, <<"PULocationID", "id">>,
                   <<"DOLocationID", "id">> >>,
     broken |-> << <<"request_datetime", "pickup">>, <<"fare_amount", "amount">> >>,
     nodrop |-> << <<"lpep_pickup_datetime", "pickup">>, <<"fare_amount", "amount">> >>,
     twice  |-> << <<"tpep_pickup_datetime", "pickup">>,
                   <<"tpep_dropoff_datetime", "dropoff">>,
                   <<"dropoff_datetime", "other">>, <<"fare_amount", "amount">> >>]

LayoutNames == DOMAIN Layouts

\* The pickup times of the rows of the file of the month starting at ms, in
\* file order; "null" is a missing timestamp.  Files hold stray rows of the
\* month before.
PickupTimes(ms) ==
    << Num(ms + 14 * TicksPerDay + 1), Num(ms - 1), Num(ms),
       Num(ms + 14 * TicksPerDay), NA >>

CellOf(content, pickup, k) ==
    CASE content = "pickup" -> pickup
      [] content = "dropoff" -> IF pickup.null THEN NA ELSE Num(pickup.n + 1)
      [] content = "other" -> IF pickup.null THEN NA ELSE Num(pickup.n + 400 * TicksPerDay)
      [] content = "id" -> Num(k)
      [] content = "amount" -> Num(10 * k)
      [] content = "label" -> Str("embedded")

\* pd.read_parquet(url) when it succeeds on a file of the given layout.  Each
\* row also records where it came from: src = <<t, m, k>>, row k of the file
\* fetched in iteration (t, m).
ReadParquet(layout, url, t, m) ==
    LET cols == Layouts[layout]
        file_month == <<url.year, 10 * url.month[1] + url.month[2]>>
        times == PickupTimes(DaysBefore(Epoch, file_month) * TicksPerDay)
    IN  [columns |-> [i \in DOMAIN cols |-> cols[i][1]],
         rows |-> [k \in DOMAIN times |->
                     [cells |-> [i \in DOMAIN cols |-> CellOf(cols[i][2], times[k], k)],
                      src |-> <<t, m, k>>]]]

\* ------------------------------------------------------------------ inputs
\* The months of the modelled calendar, and the month after the last.
RECURSIVE MonthsFrom(_, _)
MonthsFrom(ym, n) == IF n = 0 THEN {} ELSE {ym} \cup MonthsFrom(NextYM(ym), n - 1)

RECURSIVE MonthAfter(_, _)
MonthAfter(ym, n) == IF n = 0 THEN ym ELSE MonthAfter(NextYM(ym), n - 1)

\* Values of BRUIN_START_DATE / BRUIN_END_DATE: the first day of a month at
\* midnight and later that day, the 15th, and the day after the last month.
DateInputs ==
    {[y |-> ym[1], m |-> ym[2], d |-> 1, tick |-> k] :
        ym \in MonthsFrom(Epoch, NumMonths), k \in {0, 1}}
    \cup {[y |-> ym[1], m |-> ym[2], d |-> 15, tick |-> 0] :
            ym \in MonthsFrom(Epoch, NumMonths)}
    \cup {[y |-> MonthAfter(Epoch, NumMonths)[1],
           m |-> MonthAfter(Epoch, NumMonths)[2], d |-> 1, tick |-> 0]}

\* Values of BRUIN_VARS: without the taxi_types key, and with two fleets.
VarsInputs == {[other |-> <<>>], [taxi_types |-> <<"green", "fhv">>]}

\* ------------------------------------------------------------------- state
VARIABLES
    start_date,     \* os.environ["BRUIN_START_DATE"]
    end_date,       \* os.environ["BRUIN_END_DATE"]
    bruin_vars,     \* os.environ["BRUIN_VARS"], decoded
    pc,             \* "start", "loop", "returned", "raised"
    taxi_types, month_starts, start_ts, end_ts,
    ti, mi,         \* positions of the two for loops
    dataframes,
    fetched,        \* history: the fetches issued so far, with their outcome
    result,         \* the returned DataFrame
    error           \* the exception that left materialize

vars == <<start_date, end_date, bruin_vars, pc, taxi_types, month_starts,
          start_ts, end_ts, ti, mi, dataframes, fetched, result, error>>

env == <<start_date, end_date, bruin_vars>>

NoFrame == [columns |-> <<>>, rows |-> <<>>]

Init ==
    /\ start_date \in DateInputs
    /\ end_date \in DateInputs
    /\ bruin_vars \in VarsInputs
    /\ Len(TaxiTypesOf(bruin_vars))
         * Len(_generate_month_starts(start_date, end_date)) <= MaxPairs
    /\ pc = "start"
    /\ taxi_types = <<>>
    /\ month_starts = <<>>
    /\ start_ts = 0
    /\ end_ts = 0
    /\ ti = 1
    /\ mi = 1
    /\ dataframes = <<>>
    /\ fetched = <<>>
    /\ result = NoFrame
    /\ error = ""

\* Lines 107-129: read the environment, plan the months, return the empty
\* frame when there is none.
Plan ==
    /\ pc = "start"
    /\ taxi_types' = TaxiTypesOf(bruin_vars)
    /\ month_starts' = _generate_month_starts(start_date, end_date)
    /\ IF month_starts' = <<>>
       THEN /\ pc' = "returned"
            /\ result' = EmptyFrame
            /\ UNCHANGED <<start_ts, end_ts>>
       ELSE /\ pc' = "loop"
            /\ start_ts' = ToDatetime(start_date)
            /\ end_ts' = ToDatetime(end_date)
            /\ UNCHANGED result
    /\ UNCHANGED <<env, ti, mi, dataframes, fetched, error>>

url == BaseUrl(taxi_types[ti], Year(month_starts[mi]), Month(month_starts[mi]))

InLoop == pc = "loop" /\ ti <= Len(taxi_types)

Continue ==
    /\ ti' = NextPair(ti, mi, month_starts)[1]
    /\ mi' = NextPair(ti, mi, month_starts)[2]
    /\ pc' = "loop"

Raise(e) ==
    /\ pc' = "raised"
    /\ error' = e
    /\ UNCHANGED <<ti, mi, dataframes>>

\* One iteration in which pd.read_parquet raises.
FetchFails ==
    /\ InLoop
    /\ fetched' = Append(fetched, [t |-> ti, m |-> mi, url |-> url, got |-> "error"])
    /\ IF Swallowed(TRUE, FALSE)
       THEN Continue /\ UNCHANGED <<dataframes, error>>
       ELSE Raise("FetchError")
    /\ UNCHANGED <<env, taxi_types, month_starts, start_ts, end_ts, result>>

\* One iteration in which pd.read_parquet returns a file of some layout:
\* normalize, filter to the window, keep the frame unless it is empty.
FetchSucceeds(layout) ==
    /\ InLoop
    /\ fetched' = Append(fetched, [t |-> ti, m |-> mi, url |-> url, got |-> layout])
    /\ LET raw == ReadParquet(layout, url, ti, mi)
       IN  IF NormalizeRaises(raw)
           THEN IF Swallowed(FALSE, TRUE)
                THEN Continue /\ UNCHANGED <<dataframes, error>>
                ELSE Raise("ValueError")
           ELSE LET df == _normalize_columns(raw, taxi_types[ti])
                    kept == Loc(df, WindowMask(df, start_ts, end_ts))
                IN  /\ Continue
                    /\ dataframes' = IF kept.rows # <<>>
                                     THEN Append(dataframes, kept) ELSE dataframes
                    /\ UNCHANGED error
    /\ UNCHANGED <<env, taxi_types, month_starts, start_ts, end_ts, result>>

\* Lines 156-171: after the loops, the empty frame or the concatenation.
Finish ==
    /\ pc = "loop"
    /\ ti > Len(taxi_types)
    /\ IF dataframes = <<>>
       THEN pc' = "returned" /\ result' = EmptyFrame /\ UNCHANGED error
       ELSE IF ConcatRaises(dataframes)
       THEN pc' = "raised" /\ error' = "InvalidIndexError" /\ UNCHANGED result
       ELSE pc' = "returned" /\ result' = Concat(dataframes) /\ UNCHANGED error
    /\ UNCHANGED <<env, taxi_types, month_starts, start_ts, end_ts, ti, mi,
                   dataframes, fetched>>

Next ==
    \/ Plan
    \/ FetchFails
    \/ \E layout \in LayoutNames : FetchSucceeds(layout)
    \/ Finish

Spec == Init /\ [][Next]_vars

\* ------------------------------------------------------------- properties
\* The window bounds as given, before any alignment.
WindowStart == ToDatetime(start_date)

WindowEnd == ToDatetime(end_date)

Planned == pc # "start"

Returned == pc = "returned"

PickupOf(k) == result.rows[k].cells[ColumnOf(result, "pickup_datetime")]

LabelOf(k) == result.rows[k].cells[ColumnOf(result, "taxi_type")]

\* The fetch of iteration (t, m), when it has been issued.
FetchOf(t, m) == CHOOSE i \in DOMAIN fetched : fetched[i].t = t /\ fetched[i].m = m

ColumnsOfLayout(layout) == {Layouts[layout][i][1] : i \in DOMAIN Layouts[layout]}

KnownPairs ==
    { <<"pickup_datetime", "dropoff_datetime">>,
      <<"tpep_pickup_datetime", "tpep_dropoff_datetime">>,
      <<"lpep_pickup_datetime", "lpep_dropoff_datetime">> }

\* No known pickup column is among the labels.
NoKnownPickup(labels) == \A p \in KnownPairs : p[1] \notin labels

\* No known pair has both its columns among the labels.
NoKnownPair(labels) == \A p \in KnownPairs : ~(p[1] \in labels /\ p[2] \in labels)

\* C1: every row of the returned table has start_date <= pickup_datetime <
\* end_date, measured against the window bounds as given.
C1_RowsInsideWindow ==
    Returned =>
        \A k \in DOMAIN result.rows :
            /\ ~PickupOf(k).null
            /\ WindowStart <= PickupOf(k).n
            /\ PickupOf(k).n < WindowEnd

\* A table with rows is returned for a window ending mid-month, after a
\* fetch that returned a whole-month file.
C1_Witness ==
    /\ Returned
    /\ result.rows # <<>>
    /\ end_date.d = 15
    /\ Len(result.rows) < Len(PickupTimes(0)) * Len(fetched)

\* C2: when a fetch succeeds and the file has none of the known pickup
\* columns, the run ends there with normalize's ValueError and returns no
\* table, whatever the earlier pairs did.
C2_UnrecognizedSchemaAborts ==
    \A i \in DOMAIN fetched :
        (fetched[i].got \in LayoutNames
            /\ NoKnownPickup(ColumnsOfLayout(fetched[i].got)))
        => /\ pc = "raised"
           /\ error = "ValueError"
           /\ result = NoFrame
           /\ i = Len(fetched)

\* The run was aborted by an unrecognized file after an earlier pair was
\* skipped and another one was kept.
C2_Witness ==
    /\ pc = "raised"
    /\ error = "ValueError"
    /\ dataframes # <<>>
    /\ \E i \in DOMAIN fetched : fetched[i].got = "error"
    /\ fetched[Len(fetched)].got = "broken"

\* C3: an iteration whose fetch fails adds no rows, does not abort the run
\* and moves on to the next pair of the iteration order; a run in which
\* every fetch failed returns the empty table.
C3_FailedFetchSkipped ==
    /\ [][(Len(fetched') = Len(fetched) + 1 /\ fetched'[Len(fetched')].got = "error")
            => /\ pc' = "loop"
               /\ error' = ""
               /\ dataframes' = dataframes
               /\ <<ti', mi'>> = IF mi < Len(month_starts)
                                 THEN <<ti, mi + 1>> ELSE <<ti + 1, 1>>]_vars
    /\ []((pc \in {"returned", "raised"}
             /\ \A i \in DOMAIN fetched : fetched[i].got = "error")
            => /\ Returned
               /\ result = EmptyFrame
               /\ Len(fetched) = Len(taxi_types) * Len(month_starts))

\* A run whose first fetch failed went on and returned rows of a later pair.
C3_Witness ==
    /\ Returned
    /\ fetched # <<>>
    /\ fetched[1].got = "error"
    /\ result.rows # <<>>

\* The month ym has a moment inside [WindowStart, WindowEnd).
Overlaps(ym) ==
    /\ DaysBefore(Epoch, ym) * TicksPerDay < WindowEnd
    /\ DaysBefore(Epoch, NextYM(ym)) * TicksPerDay > WindowStart

\* C4: for a window with start < end, a finished run has fetched, for every
\* taxi type, every calendar month that overlaps the window.
C4_FetchesEveryOverlappingMonth ==
    (Returned /\ WindowStart < WindowEnd) =>
        \A t \in DOMAIN taxi_types :
            \A ym \in MonthsFrom(Epoch, NumMonths) :
                Overlaps(ym) =>
                    \E i \in DOMAIN fetched :
                        fetched[i].url = BaseUrl(taxi_types[t], ym[1], ym[2])

\* C5: every returned table has exactly the seven canonical columns, in order.
C5_CanonicalColumns == Returned => result.columns = required_columns

\* src1 comes before src2: taxi type first, then month, then row in the file.
Before(a, b) ==
    \/ a[1] < b[1]
    \/ a[1] = b[1] /\ a[2] < b[2]
    \/ a[1] = b[1] /\ a[2] = b[2] /\ a[3] < b[3]

\* C6: the i-th fetch is that of the i-th (taxi type, month) pair, taxi types
\* in the given order outermost and months ascending innermost, and the rows
\* of the returned table follow that order, file order within one file.
C6_FleetMajorOrder ==
    /\ \A i \in DOMAIN fetched :
         /\ i = (fetched[i].t - 1) * Len(month_starts) + fetched[i].m
         /\ fetched[i].m \in DOMAIN month_starts
         /\ fetched[i].url.taxi_type = taxi_types[fetched[i].t]
         /\ <<fetched[i].url.year, 10 * fetched[i].url.month[1] + fetched[i].url.month[2]>>
              = <<YMD(month_starts[fetched[i].m])[1], YMD(month_starts[fetched[i].m])[2]>>
    /\ \A a, b \in DOMAIN month_starts : a < b => month_starts[a] < month_starts[b]
    /\ Returned =>
         \A a, b \in DOMAIN result.rows :
            a < b => Before(result.rows[a].src, result.rows[b].src)

\* The returned table has rows of two taxi types and of two months.
C6_Witness ==
    /\ Returned
    /\ \E a, b \in DOMAIN result.rows : result.rows[a].src[1] # result.rows[b].src[1]
    /\ \E a, b \in DOMAIN result.rows :
         /\ result.rows[a].src[1] = result.rows[b].src[1]
         /\ result.rows[a].src[2] # result.rows[b].src[2]

\* C7: every returned row carries the taxi type of the iteration that
\* fetched it, also when the file had a taxi_type column of its own.
C7_CallerLabelWins ==
    Returned =>
        \A k \in DOMAIN result.rows :
            LabelOf(k) = Str(taxi_types[result.rows[k].src[1]])

\* A returned row comes from a file that had its own taxi_type column.
C7_Witness ==
    /\ Returned
    /\ \E k \in DOMAIN result.rows :
         "taxi_type" \in ColumnsOfLayout(
            fetched[FetchOf(result.rows[k].src[1], result.rows[k].src[2])].got)

SameDay == start_date.y = end_date.y /\ start_date.m = end_date.m /\ start_date.d = end_date.d

\* C8 as stated: for start > end or start == end the planner returns nothing.
C8_EmptyWhenStartNotBeforeEnd ==
    (Planned /\ WindowStart >= WindowEnd) => month_starts = <<>>

\* C8 amended: for start > end or start == end the planner returns nothing,
\* unless both fall on the same day and that day is the first of a month:
\* then it returns that one boundary.
C8_EmptyUnlessFirstOfMonth ==
    (Planned /\ WindowStart >= WindowEnd) =>
        month_starts = IF SameDay /\ start_date.d = 1
                       THEN <<ToDatetime([start_date EXCEPT !.tick = 0])>>
                       ELSE <<>>

\* Planned with start == end, the first day of a month.
C8_Witness ==
    /\ Planned
    /\ start_date = end_date
    /\ start_date.d = 1
    /\ Len(month_starts) = 1

\* The window runs from the first day of a month to the first day of the next.
OneMonthWindow ==
    /\ start_date.d = 1
    /\ end_date.d = 1
    /\ <<end_date.y, end_date.m>> = NextYM(<<start_date.y, start_date.m>>)

\* C9 as stated: a window from the first of a month to the first of the next
\* yields exactly one boundary, the first day of the starting month.
C9_OneBoundary ==
    (Planned /\ OneMonthWindow) =>
        month_starts = <<ToDatetime([start_date EXCEPT !.tick = 0])>>

\* C9 amended: such a window yields exactly two boundaries, the first day of
\* the starting month and the first day of the following month, and a
\* finished run has issued two fetches per taxi type.
C9_TwoBoundaries ==
    (Planned /\ OneMonthWindow) =>
        /\ month_starts = <<ToDatetime([start_date EXCEPT !.tick = 0]),
                            ToDatetime([end_date EXCEPT !.tick = 0])>>
        /\ Returned => Len(fetched) = 2 * Len(taxi_types)

\* A run over a one-month window has finished.
C9_Witness ==
    /\ Returned
    /\ OneMonthWindow
    /\ Len(fetched) = 2 * Len(taxi_types)

\* C10: a fetched file that has none of the three known pairs complete, both
\* the pickup and the dropoff column, makes normalize fail.
C10_IncompletePairRejected ==
    \A i \in DOMAIN fetched :
        (fetched[i].got \in LayoutNames
            /\ NoKnownPair(ColumnsOfLayout(fetched[i].got)))
        => pc = "raised" /\ error = "ValueError"

====
